---------------------------- MODULE Spec2Model ----------------------------
(***************************************************************************)
(* The model-loading node of templates/model-node: load_model and the      *)
(* helpers it calls, as a state machine.  Engine state is the pair of      *)
(* dictionaries model_cache / model_metadata; every caller of load_model   *)
(* is a thread whose position in the method body is pc[t].  Text (paths,   *)
(* config strings, messages) is a sequence of tokens, so concatenation,    *)
(* suffix extraction and JSON parsing are computed, not assumed.           *)
(***************************************************************************)
EXTENDS Integers, Sequences, FiniteSets, TLC

VARIABLES
    model_cache,      \* self.model_cache : cache_key -> model object
    model_metadata,   \* self.model_metadata : cache_key -> metadata dict
    pc,               \* per caller: position inside load_model
    req,              \* per caller: the arguments of the running call
    frame,            \* per caller: the locals of the running call
    files,            \* filesystem: the paths that exist (os.path.exists)
    corrupt,          \* filesystem: paths whose bytes no decoder accepts
    cuda,             \* torch.cuda.is_available()
    mps,              \* torch.backends.mps.is_available()
    packages,         \* importable optional packages
    loads,            \* history: number of loader invocations so far
    lastDone          \* history: the call that returned most recently

vars == <<model_cache, model_metadata, pc, req, frame, files, corrupt,
          cuda, mps, packages, loads, lastDone>>
engine == <<model_cache, model_metadata>>
environment == <<files, corrupt, cuda, mps, packages>>

(***************************************************************************)
(* Bounds.                                                                 *)
(***************************************************************************)
\* The loader is invoked at most MaxLoads times in one behaviour.
MaxLoads == 3

(***************************************************************************)
(* Values.                                                                 *)
(***************************************************************************)
\* Python's None, as a model reference; loaded objects are 1, 2, ...
None == 0
\* The empty dict.
EmptyDict == [k \in {} |-> TRUE]
\* cache_key before line 112 has run.
NoKey == [digest_of |-> <<>>]

ModelPath == <<"m", ".ckpt">>
EmptyPath == <<>>
\* Paths that are directories when they exist.
DirPaths == {<<"pipe">>, <<"pipe", ".onnx">>}
\* The file whose presence marks a diffusers directory.
IndexMarker == <<"/", "model_index.json">>

CfgAB == <<"{", "a:1", ",", "b:2", "}">>
CfgBA == <<"{", "b:2", ",", "a:1", "}">>
CfgNone == <<"{", "}">>
CfgBad == <<"{", "invalid">>

\* The members a JSON object text may hold, with the pair each denotes.
Member == ("a:1" :> [k |-> "a", v |-> 1]) @@ ("b:2" :> [k |-> "b", v |-> 2])

(***************************************************************************)
(* json.loads on a token sequence: the dict of an object text, or a        *)
(* JSONDecodeError.                                                        *)
(***************************************************************************)
JsonInner(s) == SubSeq(s, 2, Len(s) - 1)

JsonWellFormed(s) ==
    /\ Len(s) >= 2
    /\ s[1] = "{"
    /\ s[Len(s)] = "}"
    /\ LET body == JsonInner(s)
       IN  \/ body = <<>>
           \/ /\ Len(body) % 2 = 1
              /\ \A i \in 1..Len(body) :
                    IF i % 2 = 1 THEN body[i] \in DOMAIN Member
                                 ELSE body[i] = ","

\* The dict a well-formed text denotes: for a repeated name the last wins.
JsonValue(s) ==
    LET body == JsonInner(s)
        at == {i \in 1..Len(body) : body[i] \in DOMAIN Member}
        names == {Member[body[i]].k : i \in at}
        lastOf(n) == CHOOSE i \in at :
                        /\ Member[body[i]].k = n
                        /\ \A j \in at : Member[body[j]].k = n => j <= i
    IN  [n \in names |-> Member[body[lastOf(n)]].v]

\* Lines 120-124 without the except clause's default: a text json.loads
\* rejects is kept as it is.
ParseConfig_KeepsText(model_config) ==
    IF model_config = <<>> THEN EmptyDict
    ELSE IF JsonWellFormed(model_config) THEN JsonValue(model_config)
    ELSE [raw |-> model_config]

\* Lines 120-124: config = json.loads(model_config) if model_config else {},
\* and {} on JSONDecodeError.
ParseConfig(model_config) ==
    IF model_config = <<>> THEN EmptyDict
    ELSE IF JsonWellFormed(model_config) THEN JsonValue(model_config)
    ELSE EmptyDict

(***************************************************************************)
(* _generate_cache_key, lines 159-162.                                     *)
(***************************************************************************)
\* hashlib.md5(...).hexdigest(): a digest, taken to be collision-free.
Md5Hex(content) == [digest_of |-> content]

_generate_cache_key(model_path, device, precision, config) ==
    Md5Hex(model_path \o <<":", device, ":", precision, ":">> \o config)

\* Lines 111-112 with the format hint hashed in as well.
CacheKeyOf_WithFormat(r) ==
    _generate_cache_key(r.model_path \o <<":", r.model_type>>, r.device,
                        r.precision, r.model_config)

\* Lines 111-112 with the key taken after line 127: the device is resolved
\* first and the resolved name is hashed.
CacheKeyOf_Resolved(r) ==
    _generate_cache_key(r.model_path,
                        IF r.device = "auto"
                        THEN IF cuda THEN "cuda" ELSE IF mps THEN "mps" ELSE "cpu"
                        ELSE r.device,
                        r.precision, r.model_config)

\* Lines 111-112 with the optimize flag hashed in as well.
CacheKeyOf_WithOptimize(r) ==
    _generate_cache_key(r.model_path, r.device, r.precision,
                        r.model_config
                           \o <<":", IF r.optimize_memory THEN "True" ELSE "False">>)

\* Lines 111-112: the arguments load_model hands to _generate_cache_key.
CacheKeyOf(r) ==
    _generate_cache_key(r.model_path, r.device, r.precision, r.model_config)

(***************************************************************************)
(* _determine_device, lines 164-173; _determine_precision, lines 175-184.  *)
(***************************************************************************)
\* Lines 164-173 with an explicit preference checked against the hardware:
\* a device that is not available is replaced by cpu.
_determine_device_Validated(device, cudaAvail, mpsAvail) ==
    IF device = "auto"
    THEN IF cudaAvail THEN "cuda" ELSE IF mpsAvail THEN "mps" ELSE "cpu"
    ELSE IF (device = "cuda" /\ ~cudaAvail) \/ (device = "mps" /\ ~mpsAvail)
    THEN "cpu"
    ELSE device

_determine_device(device, cudaAvail, mpsAvail) ==
    IF device = "auto"
    THEN IF cudaAvail THEN "cuda" ELSE IF mpsAvail THEN "mps" ELSE "cpu"
    ELSE device

_determine_precision(precision, cudaAvail) ==
    IF precision = "auto"
    THEN IF cudaAvail THEN "torch.float16" ELSE "torch.float32"
    ELSE IF precision = "float16" THEN "torch.float16"
    ELSE IF precision = "bfloat16" THEN "torch.bfloat16"
    ELSE "torch.float32"

(***************************************************************************)
(* _detect_model_type, lines 186-201.                                      *)
(***************************************************************************)
\* Path(model_path).suffix: the last token when it is an extension.
IsExtension(tok) ==
    tok \in {".safetensors", ".ckpt", ".pth", ".pt", ".onnx", ".bin"}

Suffix(path) ==
    IF Len(path) >= 2 /\ IsExtension(path[Len(path)])
    THEN path[Len(path)] ELSE ""

IsDir(path, fs) == path \in fs /\ path \in DirPaths

\* Lines 186-201 with the directory test moved ahead of the suffix tests.
_detect_model_type_DirFirst(path, fs) ==
    IF IsDir(path, fs) /\ (path \o IndexMarker) \in fs THEN "diffusers"
    ELSE IF Suffix(path) = ".safetensors" THEN "safetensors"
    ELSE IF Suffix(path) \in {".ckpt", ".pth", ".pt"} THEN "checkpoint"
    ELSE IF Suffix(path) = ".onnx" THEN "onnx"
    ELSE "checkpoint"

_detect_model_type(path, fs) ==
    IF Suffix(path) = ".safetensors" THEN "safetensors"
    ELSE IF Suffix(path) \in {".ckpt", ".pth", ".pt"} THEN "checkpoint"
    ELSE IF Suffix(path) = ".onnx" THEN "onnx"
    ELSE IF IsDir(path, fs) /\ (path \o IndexMarker) \in fs THEN "diffusers"
    ELSE "checkpoint"

(***************************************************************************)
(* The loaders, lines 203-268.  A loader either returns (model, info) or   *)
(* raises; `invoked` tells whether dispatch reached a loader at all.       *)
(***************************************************************************)
\* A device a tensor can be placed on in this process.
DeviceUsable(device, cudaAvail, mpsAvail) ==
    \/ device = "cpu"
    \/ device = "cuda" /\ cudaAvail
    \/ device = "mps" /\ mpsAvail

\* A regular file whose bytes decode.
Readable(path, fs, bad) == path \in fs /\ path \notin bad /\ path \notin DirPaths

Loaded(info) == [ok |-> TRUE, invoked |-> TRUE, info |-> info, msg |-> <<>>]
Raised(msg, invoked) == [ok |-> FALSE, invoked |-> invoked, info |-> <<>>, msg |-> msg]

\* Lines 222-230.
_load_safetensors(path, device, fs, bad, cudaAvail, mpsAvail, pkgs) ==
    IF "safetensors" \notin pkgs
    THEN Raised(<<"safetensors package not installed">>, TRUE)
    ELSE IF Readable(path, fs, bad) /\ DeviceUsable(device, cudaAvail, mpsAvail)
    THEN Loaded(<<"SafeTensors model loaded: ", "n", " tensors">>)
    ELSE Raised(<<"load_file: ", "cannot read">> \o path, TRUE)

\* Lines 232-243.
_load_checkpoint(path, device, fs, bad, cudaAvail, mpsAvail) ==
    IF Readable(path, fs, bad) /\ DeviceUsable(device, cudaAvail, mpsAvail)
    THEN Loaded(<<"Checkpoint loaded with ", "n", " keys">>)
    ELSE Raised(<<"torch.load: ", "cannot read">> \o path, TRUE)

\* Lines 245-258 with the import failure swallowed: without the library the
\* loader hands back a pipeline object that was never built.
_load_diffusers_PartialHandle(path, device, fs, bad, cudaAvail, mpsAvail, pkgs) ==
    IF "diffusers" \notin pkgs
    THEN Loaded(<<"Diffusers pipeline loaded: ", "NoneType">>)
    ELSE IF /\ IsDir(path, fs)
            /\ (path \o IndexMarker) \in fs
            /\ path \notin bad
            /\ DeviceUsable(device, cudaAvail, mpsAvail)
    THEN Loaded(<<"Diffusers pipeline loaded: ", "DiffusionPipeline">>)
    ELSE Raised(<<"from_pretrained: ", "cannot read">> \o path, TRUE)

\* Lines 245-258.
_load_diffusers(path, device, fs, bad, cudaAvail, mpsAvail, pkgs) ==
    IF "diffusers" \notin pkgs
    THEN Raised(<<"diffusers package not installed">>, TRUE)
    ELSE IF /\ IsDir(path, fs)
            /\ (path \o IndexMarker) \in fs
            /\ path \notin bad
            /\ DeviceUsable(device, cudaAvail, mpsAvail)
    THEN Loaded(<<"Diffusers pipeline loaded: ", "DiffusionPipeline">>)
    ELSE Raised(<<"from_pretrained: ", "cannot read">> \o path, TRUE)

\* Lines 260-268.
_load_onnx(path, fs, bad, pkgs) ==
    IF "onnxruntime" \notin pkgs
    THEN Raised(<<"onnxruntime package not installed">>, TRUE)
    ELSE IF Readable(path, fs, bad)
    THEN Loaded(<<"ONNX model loaded with ", "n", " inputs">>)
    ELSE Raised(<<"InferenceSession: ", "cannot read">> \o path, TRUE)

\* Lines 203-220 with the checkpoint loader as the else branch.
_load_model_by_type_Fallback(path, model_type, device, fs, bad, cudaAvail, mpsAvail, pkgs) ==
    IF model_type = "safetensors"
    THEN _load_safetensors(path, device, fs, bad, cudaAvail, mpsAvail, pkgs)
    ELSE IF model_type = "diffusers"
    THEN _load_diffusers(path, device, fs, bad, cudaAvail, mpsAvail, pkgs)
    ELSE IF model_type = "onnx"
    THEN _load_onnx(path, fs, bad, pkgs)
    ELSE _load_checkpoint(path, device, fs, bad, cudaAvail, mpsAvail)

\* Lines 203-220.
_load_model_by_type(path, model_type, device, fs, bad, cudaAvail, mpsAvail, pkgs) ==
    IF model_type = "safetensors"
    THEN _load_safetensors(path, device, fs, bad, cudaAvail, mpsAvail, pkgs)
    ELSE IF model_type = "checkpoint"
    THEN _load_checkpoint(path, device, fs, bad, cudaAvail, mpsAvail)
    ELSE IF model_type = "diffusers"
    THEN _load_diffusers(path, device, fs, bad, cudaAvail, mpsAvail, pkgs)
    ELSE IF model_type = "onnx"
    THEN _load_onnx(path, fs, bad, pkgs)
    ELSE Raised(<<"Unsupported model type: ", model_type>>, FALSE)

(***************************************************************************)
(* _apply_memory_optimizations, lines 270-285.  `fault` says whether a     *)
(* statement of its try block raises (eval, half, or the cudnn flag); the   *)
(* except clause prints a warning, and the object is returned either way.  *)
(***************************************************************************)
_apply_memory_optimizations(model, device, fault) ==
    [model |-> model, outcome |-> IF fault THEN "warned" ELSE "applied"]

(***************************************************************************)
(* _generate_metadata, lines 287-304.  load_timestamp is a fresh object    *)
(* per call; it is identified by the load it was built for.  The size      *)
(* figure is not modelled beyond os.path.getsize raising on a missing      *)
(* path, which the caller checks.                                          *)
(***************************************************************************)
_generate_metadata(path, model_type, device, dtype, stamp) ==
    LET base == [model_path |-> path, model_type |-> model_type,
                 device |-> device, dtype |-> dtype,
                 file_size_mb |-> "st_size", load_timestamp |-> stamp,
                 success |-> TRUE]
    IN  IF device = "cuda"
        THEN base @@ [cuda_memory_allocated |-> "GB", cuda_memory_reserved |-> "GB"]
        ELSE base

(***************************************************************************)
(* The three shapes of the returned triple, lines 109, 118, 153, 157.      *)
(***************************************************************************)
Triple(model, info, metadata) ==
    [model |-> model, info |-> info, metadata |-> metadata]

FileNotFound(path) ==
    Triple(None, <<"Model file not found: ">> \o path, [error |-> "file_not_found"])

Failure(msg) ==
    Triple(None, <<"Failed to load model: ">> \o msg, [error |-> msg, success |-> FALSE])

FromCache(model, metadata) == Triple(model, <<"Model loaded from cache">>, metadata)

(***************************************************************************)
(* load_model, lines 81-157, one action per interruptible stretch.         *)
(***************************************************************************)
\* The locals of a call that has not assigned any of them yet.  loads0,
\* cache0 and meta0 are history: the loader count and the two dictionaries
\* as they were when the call was made.
EmptyFrame ==
    [cache_key |-> NoKey, cached_model |-> None, model |-> None,
     model_info |-> <<>>, metadata |-> EmptyDict, model_type |-> "",
     config |-> EmptyDict, target_device |-> "", target_dtype |-> "",
     optimized |-> "skipped",
     loads0 |-> 0, cache0 |-> EmptyDict, meta0 |-> EmptyDict]

NoRequest ==
    [model_path |-> EmptyPath, model_type |-> "", device |-> "",
     precision |-> "", cache_enabled |-> FALSE, optimize_memory |-> FALSE,
     model_config |-> <<>>, force_reload |-> FALSE]

NoCall ==
    [valid |-> FALSE, req |-> NoRequest, key |-> NoKey,
     resp |-> Triple(None, <<>>, EmptyDict), at |-> "",
     loads0 |-> 0, loads1 |-> 0, keyCached0 |-> FALSE]

\* A return statement of load_model: the caller gets `triple`, the frame is
\* gone, and the call is recorded: the statement it returned from (at), the
\* loader count when it was made (loads0) and as it leaves it (n), and
\* whether its key was cached when it was made (keyCached0).
Return(t, triple, n) ==
    /\ pc' = [pc EXCEPT ![t] = "idle"]
    /\ frame' = [frame EXCEPT ![t] = EmptyFrame]
    /\ lastDone' = [valid |-> TRUE, req |-> req[t], key |-> frame[t].cache_key,
                    resp |-> triple, at |-> pc[t],
                    loads0 |-> frame[t].loads0, loads1 |-> n,
                    keyCached0 |-> frame[t].cache_key \in DOMAIN frame[t].cache0]

\* Lines 81-89: a caller enters load_model with arguments r.
Call(t, r) ==
    /\ pc[t] = "idle"
    /\ pc' = [pc EXCEPT ![t] = "validate"]
    /\ req' = [req EXCEPT ![t] = r]
    /\ frame' = [frame EXCEPT ![t] =
                    [EmptyFrame EXCEPT !.loads0 = loads,
                                       !.cache0 = model_cache,
                                       !.meta0 = model_metadata]]
    /\ UNCHANGED <<engine, environment, loads, lastDone>>

\* Lines 106-112 without the os.path.exists test.
Validate_EmptyOnly(t) ==
    /\ pc[t] = "validate"
    /\ IF req[t].model_path = EmptyPath
       THEN Return(t, FileNotFound(req[t].model_path), loads)
       ELSE /\ pc' = [pc EXCEPT ![t] = "lookup"]
            /\ frame' = [frame EXCEPT ![t].cache_key = CacheKeyOf(req[t])]
            /\ UNCHANGED lastDone
    /\ UNCHANGED <<engine, req, environment, loads>>

\* Lines 106-118 with the cache test ahead of the path test: a call whose
\* key is cached goes to the cache branch without looking at the path.
Validate_AfterLookup(t) ==
    /\ pc[t] = "validate"
    /\ IF /\ req[t].cache_enabled
          /\ ~req[t].force_reload
          /\ CacheKeyOf(req[t]) \in DOMAIN model_cache
       THEN /\ pc' = [pc EXCEPT ![t] = "hit_model"]
            /\ frame' = [frame EXCEPT ![t].cache_key = CacheKeyOf(req[t])]
            /\ UNCHANGED lastDone
       ELSE IF req[t].model_path = EmptyPath \/ req[t].model_path \notin files
       THEN Return(t, FileNotFound(req[t].model_path), loads)
       ELSE /\ pc' = [pc EXCEPT ![t] = "lookup"]
            /\ frame' = [frame EXCEPT ![t].cache_key = CacheKeyOf(req[t])]
            /\ UNCHANGED lastDone
    /\ UNCHANGED <<engine, req, environment, loads>>

\* Lines 106-112: validate the path, then derive the cache key.
Validate(t) ==
    /\ pc[t] = "validate"
    /\ IF req[t].model_path = EmptyPath \/ req[t].model_path \notin files
       THEN Return(t, FileNotFound(req[t].model_path), loads)
       ELSE /\ pc' = [pc EXCEPT ![t] = "lookup"]
            /\ frame' = [frame EXCEPT ![t].cache_key = CacheKeyOf(req[t])]
            /\ UNCHANGED lastDone
    /\ UNCHANGED <<engine, req, environment, loads>>

\* Lines 114-115 without the force_reload conjunct.
CacheLookup_IgnoresForce(t) ==
    /\ pc[t] = "lookup"
    /\ IF /\ req[t].cache_enabled
          /\ frame[t].cache_key \in DOMAIN model_cache
       THEN pc' = [pc EXCEPT ![t] = "hit_model"]
       ELSE pc' = [pc EXCEPT ![t] = "load"]
    /\ UNCHANGED <<engine, req, frame, environment, loads, lastDone>>

\* Lines 114-115 with the test inverted on cache_enabled: never a hit.
CacheLookup_NeverHits(t) ==
    /\ pc[t] = "lookup"
    /\ IF /\ ~req[t].cache_enabled
          /\ ~req[t].force_reload
          /\ frame[t].cache_key \in DOMAIN model_cache
       THEN pc' = [pc EXCEPT ![t] = "hit_model"]
       ELSE pc' = [pc EXCEPT ![t] = "load"]
    /\ UNCHANGED <<engine, req, frame, environment, loads, lastDone>>

\* Lines 114-115: the cache test.
CacheLookup(t) ==
    /\ pc[t] = "lookup"
    /\ IF /\ req[t].cache_enabled
          /\ ~req[t].force_reload
          /\ frame[t].cache_key \in DOMAIN model_cache
       THEN pc' = [pc EXCEPT ![t] = "hit_model"]
       ELSE pc' = [pc EXCEPT ![t] = "load"]
    /\ UNCHANGED <<engine, req, frame, environment, loads, lastDone>>

\* Line 116: cached_model = self.model_cache[cache_key].
ReadCachedModel(t) ==
    /\ pc[t] = "hit_model"
    /\ frame' = [frame EXCEPT ![t].cached_model = model_cache[frame[t].cache_key]]
    /\ pc' = [pc EXCEPT ![t] = "hit_metadata"]
    /\ UNCHANGED <<engine, req, environment, loads, lastDone>>

\* Lines 117-118: metadata = self.model_metadata.get(cache_key, {}); return.
ReadCachedMetadata(t) ==
    /\ pc[t] = "hit_metadata"
    /\ LET k == frame[t].cache_key
           metadata == IF k \in DOMAIN model_metadata
                       THEN model_metadata[k] ELSE EmptyDict
       IN  Return(t, FromCache(frame[t].cached_model, metadata), loads)
    /\ UNCHANGED <<engine, req, environment, loads>>

\* Lines 120-139 and 155-157 with the failure stored in the cache: the
\* handler of line 155 records None under the key before returning.
Load_CachesFailure(t) ==
    /\ pc[t] = "load"
    /\ loads < MaxLoads
    /\ LET config == ParseConfig(req[t].model_config)
           target_device == _determine_device(req[t].device, cuda, mps)
           target_dtype == _determine_precision(req[t].precision, cuda)
           model_type == IF req[t].model_type = "auto"
                         THEN _detect_model_type(req[t].model_path, files)
                         ELSE req[t].model_type
           out == _load_model_by_type(req[t].model_path, model_type,
                                      target_device, files, corrupt,
                                      cuda, mps, packages)
           n == IF out.invoked THEN loads + 1 ELSE loads
       IN  /\ loads' = n
           /\ IF out.ok
              THEN /\ frame' = [frame EXCEPT ![t].model = n,
                                             ![t].model_info = out.info,
                                             ![t].config = config,
                                             ![t].model_type = model_type,
                                             ![t].target_device = target_device,
                                             ![t].target_dtype = target_dtype]
                   /\ pc' = [pc EXCEPT ![t] = "loaded"]
                   /\ UNCHANGED <<lastDone, engine>>
              ELSE /\ Return(t, Failure(out.msg), n)
                   /\ model_cache' = (frame[t].cache_key :> None) @@ model_cache
                   /\ model_metadata' =
                         (frame[t].cache_key :> Failure(out.msg).metadata)
                            @@ model_metadata
    /\ UNCHANGED <<req, environment>>

\* Lines 120-139 and 155-157 with the handler invalidating the key: a failed
\* load removes the entry stored under its key.
Load_DropsEntryOnFailure(t) ==
    /\ pc[t] = "load"
    /\ loads < MaxLoads
    /\ LET config == ParseConfig(req[t].model_config)
           target_device == _determine_device(req[t].device, cuda, mps)
           target_dtype == _determine_precision(req[t].precision, cuda)
           model_type == IF req[t].model_type = "auto"
                         THEN _detect_model_type(req[t].model_path, files)
                         ELSE req[t].model_type
           out == _load_model_by_type(req[t].model_path, model_type,
                                      target_device, files, corrupt,
                                      cuda, mps, packages)
           n == IF out.invoked THEN loads + 1 ELSE loads
       IN  /\ loads' = n
           /\ IF out.ok
              THEN /\ frame' = [frame EXCEPT ![t].model = n,
                                             ![t].model_info = out.info,
                                             ![t].config = config,
                                             ![t].model_type = model_type,
                                             ![t].target_device = target_device,
                                             ![t].target_dtype = target_dtype]
                   /\ pc' = [pc EXCEPT ![t] = "loaded"]
                   /\ UNCHANGED <<lastDone, engine>>
              ELSE /\ Return(t, Failure(out.msg), n)
                   /\ model_cache' =
                         [k \in DOMAIN model_cache \ {frame[t].cache_key} |->
                             model_cache[k]]
                   /\ model_metadata' =
                         [k \in DOMAIN model_metadata \ {frame[t].cache_key} |->
                             model_metadata[k]]
    /\ UNCHANGED <<req, environment>>

\* Lines 120-139 and 155-157: parse the config, resolve device, precision
\* and format, dispatch to the loader; a raise becomes the failure triple.
Load(t) ==
    /\ pc[t] = "load"
    /\ loads < MaxLoads
    /\ LET config == ParseConfig(req[t].model_config)
           target_device == _determine_device(req[t].device, cuda, mps)
           target_dtype == _determine_precision(req[t].precision, cuda)
           model_type == IF req[t].model_type = "auto"
                         THEN _detect_model_type(req[t].model_path, files)
                         ELSE req[t].model_type
           out == _load_model_by_type(req[t].model_path, model_type,
                                      target_device, files, corrupt,
                                      cuda, mps, packages)
           n == IF out.invoked THEN loads + 1 ELSE loads
       IN  /\ loads' = n
           /\ IF out.ok
              THEN /\ frame' = [frame EXCEPT ![t].model = n,
                                             ![t].model_info = out.info,
                                             ![t].config = config,
                                             ![t].model_type = model_type,
                                             ![t].target_device = target_device,
                                             ![t].target_dtype = target_dtype]
                   /\ pc' = [pc EXCEPT ![t] = "loaded"]
                   /\ UNCHANGED lastDone
              ELSE Return(t, Failure(out.msg), n)
    /\ UNCHANGED <<engine, req, environment>>

\* Lines 141-146 with the except clause of the optimisation pass re-raising:
\* a fault inside it reaches the handler of lines 155-157.
BuildMetadata_OptimizeFatal(t) ==
    /\ pc[t] = "loaded"
    /\ \E fault \in BOOLEAN :
          LET runs == req[t].optimize_memory /\ frame[t].model # None
              opt == IF runs
                     THEN _apply_memory_optimizations(frame[t].model,
                                                      frame[t].target_device, fault)
                     ELSE [model |-> frame[t].model, outcome |-> "skipped"]
          IN  IF runs /\ fault
              THEN Return(t, Failure(<<"optimization: ", "error">>), loads)
              ELSE IF req[t].model_path \in files
              THEN /\ frame' = [frame EXCEPT
                                   ![t].model = opt.model,
                                   ![t].optimized = opt.outcome,
                                   ![t].metadata =
                                      _generate_metadata(req[t].model_path,
                                                         frame[t].model_type,
                                                         frame[t].target_device,
                                                         frame[t].target_dtype,
                                                         opt.model)]
                   /\ pc' = [pc EXCEPT ![t] = "cache"]
                   /\ UNCHANGED lastDone
              ELSE Return(t, Failure(<<"getsize: ", "No such file">>), loads)
    /\ UNCHANGED <<engine, req, environment, loads>>

\* Lines 141-151 with the model stored (line 150) before the metadata is
\* built (line 146).
BuildMetadata_CachesFirst(t) ==
    /\ pc[t] = "loaded"
    /\ model_cache' = IF req[t].cache_enabled
                      THEN (frame[t].cache_key :> frame[t].model) @@ model_cache
                      ELSE model_cache
    /\ \E fault \in BOOLEAN :
          LET runs == req[t].optimize_memory /\ frame[t].model # None
              opt == IF runs
                     THEN _apply_memory_optimizations(frame[t].model,
                                                      frame[t].target_device, fault)
                     ELSE [model |-> frame[t].model, outcome |-> "skipped"]
          IN  IF req[t].model_path \in files
              THEN /\ frame' = [frame EXCEPT
                                   ![t].model = opt.model,
                                   ![t].optimized = opt.outcome,
                                   ![t].metadata =
                                      _generate_metadata(req[t].model_path,
                                                         frame[t].model_type,
                                                         frame[t].target_device,
                                                         frame[t].target_dtype,
                                                         opt.model)]
                   /\ pc' = [pc EXCEPT ![t] = "cache"]
                   /\ UNCHANGED lastDone
              ELSE Return(t, Failure(<<"getsize: ", "No such file">>), loads)
    /\ UNCHANGED <<model_metadata, req, environment, loads>>

\* Lines 141-146 and 155-157: the optimisation pass, run when
\* optimize_memory is set and a model was loaded, and the metadata;
\* os.path.getsize raises when the path is gone.
BuildMetadata(t) ==
    /\ pc[t] = "loaded"
    /\ \E fault \in BOOLEAN :
          LET runs == req[t].optimize_memory /\ frame[t].model # None
              opt == IF runs
                     THEN _apply_memory_optimizations(frame[t].model,
                                                      frame[t].target_device, fault)
                     ELSE [model |-> frame[t].model, outcome |-> "skipped"]
          IN  IF req[t].model_path \in files
              THEN /\ frame' = [frame EXCEPT
                                   ![t].model = opt.model,
                                   ![t].optimized = opt.outcome,
                                   ![t].metadata =
                                      _generate_metadata(req[t].model_path,
                                                         frame[t].model_type,
                                                         frame[t].target_device,
                                                         frame[t].target_dtype,
                                                         opt.model)]
                   /\ pc' = [pc EXCEPT ![t] = "cache"]
                   /\ UNCHANGED lastDone
              ELSE Return(t, Failure(<<"getsize: ", "No such file">>), loads)
    /\ UNCHANGED <<engine, req, environment, loads>>

\* Lines 148-150 on a table of one slot: storing the model drops every
\* other entry.
CacheModel_Evicts(t) ==
    /\ pc[t] = "cache"
    /\ IF req[t].cache_enabled /\ frame[t].model # None
       THEN /\ model_cache' = (frame[t].cache_key :> frame[t].model)
            /\ pc' = [pc EXCEPT ![t] = "cache_metadata"]
            /\ UNCHANGED <<frame, lastDone>>
       ELSE /\ Return(t, Triple(frame[t].model, frame[t].model_info,
                                frame[t].metadata), loads)
            /\ UNCHANGED model_cache
    /\ UNCHANGED <<model_metadata, req, environment, loads>>

\* Lines 148-150 without the cache_enabled conjunct.
CacheModel_IgnoresSwitch(t) ==
    /\ pc[t] = "cache"
    /\ IF frame[t].model # None
       THEN /\ model_cache' = (frame[t].cache_key :> frame[t].model) @@ model_cache
            /\ pc' = [pc EXCEPT ![t] = "cache_metadata"]
            /\ UNCHANGED <<frame, lastDone>>
       ELSE /\ Return(t, Triple(frame[t].model, frame[t].model_info,
                                frame[t].metadata), loads)
            /\ UNCHANGED model_cache
    /\ UNCHANGED <<model_metadata, req, environment, loads>>

\* Lines 148-150 as a read-modify-write of the whole table: the dictionary
\* is rebuilt from the copy the call saw when it was made.
CacheModel_FromSnapshot(t) ==
    /\ pc[t] = "cache"
    /\ IF req[t].cache_enabled /\ frame[t].model # None
       THEN /\ model_cache' = (frame[t].cache_key :> frame[t].model) @@ frame[t].cache0
            /\ pc' = [pc EXCEPT ![t] = "cache_metadata"]
            /\ UNCHANGED <<frame, lastDone>>
       ELSE /\ Return(t, Triple(frame[t].model, frame[t].model_info,
                                frame[t].metadata), loads)
            /\ UNCHANGED model_cache
    /\ UNCHANGED <<model_metadata, req, environment, loads>>

\* Lines 148-150, and 153 when nothing is cached.
CacheModel(t) ==
    /\ pc[t] = "cache"
    /\ IF req[t].cache_enabled /\ frame[t].model # None
       THEN /\ model_cache' = (frame[t].cache_key :> frame[t].model) @@ model_cache
            /\ pc' = [pc EXCEPT ![t] = "cache_metadata"]
            /\ UNCHANGED <<frame, lastDone>>
       ELSE /\ Return(t, Triple(frame[t].model, frame[t].model_info,
                                frame[t].metadata), loads)
            /\ UNCHANGED model_cache
    /\ UNCHANGED <<model_metadata, req, environment, loads>>

\* Lines 151-153 with setdefault in place of the assignment: metadata that
\* is already stored under the key is kept.
CacheMetadata_KeepsOld(t) ==
    /\ pc[t] = "cache_metadata"
    /\ model_metadata' = model_metadata @@ (frame[t].cache_key :> frame[t].metadata)
    /\ Return(t, Triple(frame[t].model, frame[t].model_info, frame[t].metadata), loads)
    /\ UNCHANGED <<model_cache, req, environment, loads>>

\* Lines 151-153.
CacheMetadata(t) ==
    /\ pc[t] = "cache_metadata"
    /\ model_metadata' = (frame[t].cache_key :> frame[t].metadata) @@ model_metadata
    /\ Return(t, Triple(frame[t].model, frame[t].model_info, frame[t].metadata), loads)
    /\ UNCHANGED <<model_cache, req, environment, loads>>

(***************************************************************************)
(* The world around the engine: the model file comes and goes, and its     *)
(* bytes are damaged and repaired.                                         *)
(***************************************************************************)
RemoveFile ==
    /\ ModelPath \in files
    /\ files' = files \ {ModelPath}
    /\ UNCHANGED <<engine, pc, req, frame, corrupt, cuda, mps, packages, loads, lastDone>>

RestoreFile ==
    /\ ModelPath \notin files
    /\ files' = files \cup {ModelPath}
    /\ UNCHANGED <<engine, pc, req, frame, corrupt, cuda, mps, packages, loads, lastDone>>

DamageFile ==
    /\ ModelPath \notin corrupt
    /\ corrupt' = corrupt \cup {ModelPath}
    /\ UNCHANGED <<engine, pc, req, frame, files, cuda, mps, packages, loads, lastDone>>

RepairFile ==
    /\ ModelPath \in corrupt
    /\ corrupt' = corrupt \ {ModelPath}
    /\ UNCHANGED <<engine, pc, req, frame, files, cuda, mps, packages, loads, lastDone>>

(***************************************************************************)
(* Specifications.  Spec: one caller, so calls run one after another.      *)
(* SpecConc: two callers whose calls interleave line by line.              *)
(***************************************************************************)
\* The arguments the callers draw from.
Requests ==
    [model_path : {EmptyPath, ModelPath}, model_type : {"auto"},
     device : {"auto"}, precision : {"auto"},
     cache_enabled : BOOLEAN, optimize_memory : {TRUE},
     model_config : {CfgAB, CfgBA}, force_reload : BOOLEAN]

InitFor(callers) ==
    /\ model_cache = EmptyDict
    /\ model_metadata = EmptyDict
    /\ pc = [t \in callers |-> "idle"]
    /\ req = [t \in callers |-> NoRequest]
    /\ frame = [t \in callers |-> EmptyFrame]
    /\ files = {ModelPath}
    /\ corrupt = {}
    /\ cuda = FALSE
    /\ mps = FALSE
    /\ packages = {}
    /\ loads = 0
    /\ lastDone = NoCall

Init == InitFor({1})

InitConc == InitFor({1, 2})

Next ==
    \/ \E t \in DOMAIN pc : \E r \in Requests : Call(t, r)
    \/ \E t \in DOMAIN pc : Validate(t)
    \/ \E t \in DOMAIN pc : CacheLookup(t)
    \/ \E t \in DOMAIN pc : ReadCachedModel(t)
    \/ \E t \in DOMAIN pc : ReadCachedMetadata(t)
    \/ \E t \in DOMAIN pc : Load(t)
    \/ \E t \in DOMAIN pc : BuildMetadata(t)
    \/ \E t \in DOMAIN pc : CacheModel(t)
    \/ \E t \in DOMAIN pc : CacheMetadata(t)
    \/ RemoveFile
    \/ RestoreFile
    \/ DamageFile
    \/ RepairFile

Spec == Init /\ [][Next]_vars

\* The arguments two racing callers draw from: the file exists throughout.
ConcRequests ==
    [model_path : {ModelPath}, model_type : {"auto"},
     device : {"auto"}, precision : {"auto"},
     cache_enabled : {TRUE}, optimize_memory : {TRUE},
     model_config : {CfgAB, CfgBA}, force_reload : BOOLEAN]

NextConc ==
    \/ \E t \in DOMAIN pc : \E r \in ConcRequests : Call(t, r)
    \/ \E t \in DOMAIN pc : Validate(t)
    \/ \E t \in DOMAIN pc : CacheLookup(t)
    \/ \E t \in DOMAIN pc : ReadCachedModel(t)
    \/ \E t \in DOMAIN pc : ReadCachedMetadata(t)
    \/ \E t \in DOMAIN pc : Load(t)
    \/ \E t \in DOMAIN pc : BuildMetadata(t)
    \/ \E t \in DOMAIN pc : CacheModel(t)
    \/ \E t \in DOMAIN pc : CacheMetadata(t)

SpecConc == InitConc /\ [][NextConc]_vars

\* SpecDisjoint: two callers whose calls interleave line by line, each
\* asking with a config of its own, so that the two never share a key.
OwnConfig(t) == IF t = 1 THEN CfgAB ELSE CfgBA

DisjointRequests(t) == {r \in ConcRequests : r.model_config = OwnConfig(t)}

NextDisjoint ==
    \/ \E t \in DOMAIN pc : \E r \in DisjointRequests(t) : Call(t, r)
    \/ \E t \in DOMAIN pc : Validate(t)
    \/ \E t \in DOMAIN pc : CacheLookup(t)
    \/ \E t \in DOMAIN pc : ReadCachedModel(t)
    \/ \E t \in DOMAIN pc : ReadCachedMetadata(t)
    \/ \E t \in DOMAIN pc : Load(t)
    \/ \E t \in DOMAIN pc : BuildMetadata(t)
    \/ \E t \in DOMAIN pc : CacheModel(t)
    \/ \E t \in DOMAIN pc : CacheMetadata(t)

SpecDisjoint == InitConc /\ [][NextDisjoint]_vars

\* SpecKey: one caller and a quiet world, with every argument of load_model
\* varied, the ones the cache key leaves out included: the calls that depart
\* from the defaults of INPUT_TYPES in at most two arguments, at most one of
\* them an argument of the cache key.
KeyDepartures(r) ==
    {f \in {"device", "precision"} : r[f] # "auto"}
       \cup {f \in {"model_config"} : r[f] # CfgNone}

OtherDepartures(r) ==
    {f \in {"model_type"} : r[f] # "auto"}
       \cup {f \in {"cache_enabled", "optimize_memory"} : ~r[f]}
       \cup {f \in {"force_reload"} : r[f]}

KeyRequests ==
    {r \in [model_path : {ModelPath}, model_type : {"auto", "safetensors"},
            device : {"auto", "cpu"}, precision : {"auto", "float16"},
            cache_enabled : BOOLEAN, optimize_memory : BOOLEAN,
            model_config : {CfgNone, CfgAB}, force_reload : BOOLEAN] :
        /\ Cardinality(KeyDepartures(r)) <= 1
        /\ Cardinality(KeyDepartures(r)) + Cardinality(OtherDepartures(r)) <= 2}

NextKey ==
    \/ \E t \in DOMAIN pc : \E r \in KeyRequests : Call(t, r)
    \/ \E t \in DOMAIN pc : Validate(t)
    \/ \E t \in DOMAIN pc : CacheLookup(t)
    \/ \E t \in DOMAIN pc : ReadCachedModel(t)
    \/ \E t \in DOMAIN pc : ReadCachedMetadata(t)
    \/ \E t \in DOMAIN pc : Load(t)
    \/ \E t \in DOMAIN pc : BuildMetadata(t)
    \/ \E t \in DOMAIN pc : CacheModel(t)
    \/ \E t \in DOMAIN pc : CacheMetadata(t)

SpecKey == Init /\ [][NextKey]_vars

\* SpecAuto: one caller on a machine with or without cuda, asking for one
\* path with device auto and with each device auto can resolve to there,
\* cached, forced or not.
AutoRequests ==
    [model_path : {ModelPath}, model_type : {"auto"},
     device : {"auto", "cpu", "cuda"}, precision : {"auto"},
     cache_enabled : {TRUE}, optimize_memory : {TRUE},
     model_config : {CfgNone}, force_reload : BOOLEAN]

InitAuto ==
    /\ model_cache = EmptyDict
    /\ model_metadata = EmptyDict
    /\ pc = [t \in {1} |-> "idle"]
    /\ req = [t \in {1} |-> NoRequest]
    /\ frame = [t \in {1} |-> EmptyFrame]
    /\ files = {ModelPath}
    /\ corrupt = {}
    /\ cuda \in BOOLEAN
    /\ mps = FALSE
    /\ packages = {}
    /\ loads = 0
    /\ lastDone = NoCall

NextAuto ==
    \/ \E t \in DOMAIN pc : \E r \in AutoRequests : Call(t, r)
    \/ \E t \in DOMAIN pc : Validate(t)
    \/ \E t \in DOMAIN pc : CacheLookup(t)
    \/ \E t \in DOMAIN pc : ReadCachedModel(t)
    \/ \E t \in DOMAIN pc : ReadCachedMetadata(t)
    \/ \E t \in DOMAIN pc : Load(t)
    \/ \E t \in DOMAIN pc : BuildMetadata(t)
    \/ \E t \in DOMAIN pc : CacheModel(t)
    \/ \E t \in DOMAIN pc : CacheMetadata(t)

SpecAuto == InitAuto /\ [][NextAuto]_vars

\* SpecDevice: one caller on a machine whose hardware is any of the four
\* combinations of the two accelerators, with every device and precision
\* preference of INPUT_TYPES; caching is off, so every call resolves both.
DeviceRequests ==
    [model_path : {ModelPath}, model_type : {"auto"},
     device : {"auto", "cpu", "cuda", "mps"},
     precision : {"auto", "float32", "float16", "bfloat16"},
     cache_enabled : {FALSE}, optimize_memory : {TRUE},
     model_config : {CfgNone}, force_reload : {FALSE}]

InitDevice ==
    /\ model_cache = EmptyDict
    /\ model_metadata = EmptyDict
    /\ pc = [t \in {1} |-> "idle"]
    /\ req = [t \in {1} |-> NoRequest]
    /\ frame = [t \in {1} |-> EmptyFrame]
    /\ files = {ModelPath}
    /\ corrupt = {}
    /\ cuda \in BOOLEAN
    /\ mps \in BOOLEAN
    /\ packages = {}
    /\ loads = 0
    /\ lastDone = NoCall

NextDevice ==
    \/ \E t \in DOMAIN pc : \E r \in DeviceRequests : Call(t, r)
    \/ \E t \in DOMAIN pc : Validate(t)
    \/ \E t \in DOMAIN pc : CacheLookup(t)
    \/ \E t \in DOMAIN pc : Load(t)
    \/ \E t \in DOMAIN pc : BuildMetadata(t)
    \/ \E t \in DOMAIN pc : CacheModel(t)

SpecDevice == InitDevice /\ [][NextDevice]_vars

\* SpecFormat: one caller with every runtime library installed, on a file
\* system holding one file per extension, a file of an unknown extension, a
\* directory and a directory whose name ends in an extension; the marker
\* file of the first directory comes and goes.  The format hint is auto or
\* names a loader; caching is off, so every call reaches the dispatch.
FormatPaths ==
    {<<"m", ".safetensors">>, ModelPath, <<"m", ".pth">>, <<"m", ".pt">>,
     <<"m", ".onnx">>, <<"m", ".bin">>} \cup DirPaths

AllPackages == {"safetensors", "diffusers", "onnxruntime"}

FormatRequests ==
    [model_path : FormatPaths, model_type : {"auto", "onnx"},
     device : {"auto"}, precision : {"auto"},
     cache_enabled : {FALSE}, optimize_memory : {TRUE},
     model_config : {CfgNone}, force_reload : {FALSE}]

InitFormat ==
    /\ model_cache = EmptyDict
    /\ model_metadata = EmptyDict
    /\ pc = [t \in {1} |-> "idle"]
    /\ req = [t \in {1} |-> NoRequest]
    /\ frame = [t \in {1} |-> EmptyFrame]
    /\ files = FormatPaths \cup {d \o IndexMarker : d \in DirPaths}
    /\ corrupt = {}
    /\ cuda = FALSE
    /\ mps = FALSE
    /\ packages = AllPackages
    /\ loads = 0
    /\ lastDone = NoCall

RemoveMarker ==
    /\ (<<"pipe">> \o IndexMarker) \in files
    /\ files' = files \ {<<"pipe">> \o IndexMarker}
    /\ UNCHANGED <<engine, pc, req, frame, corrupt, cuda, mps, packages, loads, lastDone>>

RestoreMarker ==
    /\ (<<"pipe">> \o IndexMarker) \notin files
    /\ files' = files \cup {<<"pipe">> \o IndexMarker}
    /\ UNCHANGED <<engine, pc, req, frame, corrupt, cuda, mps, packages, loads, lastDone>>

NextFormat ==
    \/ \E t \in DOMAIN pc : \E r \in FormatRequests : Call(t, r)
    \/ \E t \in DOMAIN pc : Validate(t)
    \/ \E t \in DOMAIN pc : CacheLookup(t)
    \/ \E t \in DOMAIN pc : Load(t)
    \/ \E t \in DOMAIN pc : BuildMetadata(t)
    \/ \E t \in DOMAIN pc : CacheModel(t)
    \/ RemoveMarker
    \/ RestoreMarker

SpecFormat == InitFormat /\ [][NextFormat]_vars

\* SpecDispatch: one caller on a machine with none or all of the runtime
\* libraries, asking for one path under every format hint that names a
\* library-backed loader, under auto, and under a tag no loader answers to.
\* The cache key leaves the hint out, so all the calls share one key.
UnknownFormat == "gguf"

DispatchRequests ==
    [model_path : {ModelPath},
     model_type : {"auto", "safetensors", "diffusers", "onnx", UnknownFormat},
     device : {"auto"}, precision : {"auto"},
     cache_enabled : {TRUE}, optimize_memory : {TRUE},
     model_config : {CfgNone}, force_reload : BOOLEAN]

InitDispatch ==
    /\ model_cache = EmptyDict
    /\ model_metadata = EmptyDict
    /\ pc = [t \in {1} |-> "idle"]
    /\ req = [t \in {1} |-> NoRequest]
    /\ frame = [t \in {1} |-> EmptyFrame]
    /\ files = {ModelPath}
    /\ corrupt = {}
    /\ cuda = FALSE
    /\ mps = FALSE
    /\ packages \in {{}, AllPackages}
    /\ loads = 0
    /\ lastDone = NoCall

NextDispatch ==
    \/ \E t \in DOMAIN pc : \E r \in DispatchRequests : Call(t, r)
    \/ \E t \in DOMAIN pc : Validate(t)
    \/ \E t \in DOMAIN pc : CacheLookup(t)
    \/ \E t \in DOMAIN pc : ReadCachedModel(t)
    \/ \E t \in DOMAIN pc : ReadCachedMetadata(t)
    \/ \E t \in DOMAIN pc : Load(t)
    \/ \E t \in DOMAIN pc : BuildMetadata(t)
    \/ \E t \in DOMAIN pc : CacheModel(t)
    \/ \E t \in DOMAIN pc : CacheMetadata(t)

SpecDispatch == InitDispatch /\ [][NextDispatch]_vars

\* SpecConfig: one caller asking for one path with the empty config, a
\* well-formed one and a malformed one, forced or not, while the file is
\* damaged and repaired.
ConfigRequests ==
    [model_path : {ModelPath}, model_type : {"auto"},
     device : {"auto"}, precision : {"auto"},
     cache_enabled : {TRUE}, optimize_memory : {TRUE},
     model_config : {CfgNone, CfgAB, CfgBad}, force_reload : BOOLEAN]

NextConfig ==
    \/ \E t \in DOMAIN pc : \E r \in ConfigRequests : Call(t, r)
    \/ \E t \in DOMAIN pc : Validate(t)
    \/ \E t \in DOMAIN pc : CacheLookup(t)
    \/ \E t \in DOMAIN pc : ReadCachedModel(t)
    \/ \E t \in DOMAIN pc : ReadCachedMetadata(t)
    \/ \E t \in DOMAIN pc : Load(t)
    \/ \E t \in DOMAIN pc : BuildMetadata(t)
    \/ \E t \in DOMAIN pc : CacheModel(t)
    \/ \E t \in DOMAIN pc : CacheMetadata(t)
    \/ DamageFile
    \/ RepairFile

SpecConfig == Init /\ [][NextConfig]_vars

\* SpecHint: one caller with every runtime library installed, asking for one
\* path with every combination of the switches and a format hint of auto or
\* safetensors.  The cache key leaves all of these out, so the calls share
\* one key.
HintRequests ==
    [model_path : {ModelPath}, model_type : {"auto", "safetensors"},
     device : {"auto"}, precision : {"auto"},
     cache_enabled : BOOLEAN, optimize_memory : BOOLEAN,
     model_config : {CfgNone}, force_reload : BOOLEAN]

InitHint ==
    /\ model_cache = EmptyDict
    /\ model_metadata = EmptyDict
    /\ pc = [t \in {1} |-> "idle"]
    /\ req = [t \in {1} |-> NoRequest]
    /\ frame = [t \in {1} |-> EmptyFrame]
    /\ files = {ModelPath}
    /\ corrupt = {}
    /\ cuda = FALSE
    /\ mps = FALSE
    /\ packages = AllPackages
    /\ loads = 0
    /\ lastDone = NoCall

NextHint ==
    \/ \E t \in DOMAIN pc : \E r \in HintRequests : Call(t, r)
    \/ \E t \in DOMAIN pc : Validate(t)
    \/ \E t \in DOMAIN pc : CacheLookup(t)
    \/ \E t \in DOMAIN pc : ReadCachedModel(t)
    \/ \E t \in DOMAIN pc : ReadCachedMetadata(t)
    \/ \E t \in DOMAIN pc : Load(t)
    \/ \E t \in DOMAIN pc : BuildMetadata(t)
    \/ \E t \in DOMAIN pc : CacheModel(t)
    \/ \E t \in DOMAIN pc : CacheMetadata(t)

SpecHint == InitHint /\ [][NextHint]_vars

(***************************************************************************)
(* Vocabulary of the properties.                                           *)
(***************************************************************************)
\* Caller t returns from load_model in this step.
Returns(t) == pc[t] # "idle" /\ pc'[t] = "idle"

\* Two calls agree on path, device preference, precision preference, config.
SameKeyFields(a, b) ==
    /\ a.model_path = b.model_path
    /\ a.device = b.device
    /\ a.precision = b.precision
    /\ a.model_config = b.model_config

\* A call that may be served from the cache.
Cacheable(r) == r.cache_enabled /\ ~r.force_reload

\* The metadata says success = True.
SaysSuccess(metadata) ==
    "success" \in DOMAIN metadata /\ metadata.success = TRUE

\* The recorded call ended in the failure triple of lines 155-157.
LoadFailed(c) == c.valid /\ c.at \in {"load", "loaded"} /\ c.resp.model = None

\* Caller t has passed the cache test and has not returned yet.
PastLookup(t) == pc[t] \in {"load", "loaded", "cache", "cache_metadata"}

\* Caller t has had the loader build an object and has not returned yet.
HoldsLoad(t) == pc[t] \in {"loaded", "cache", "cache_metadata"}

(***************************************************************************)
(* C1.  Idempotent cache hit.                                              *)
(***************************************************************************)
\* Caller t returns from a cacheable call R2 made right after a cacheable
\* call R1 (the recorded one) with the same four key fields.
RepeatsLast(t) ==
    /\ Returns(t)
    /\ lastDone.valid
    /\ SameKeyFields(lastDone.req, req[t])
    /\ Cacheable(lastDone.req)
    /\ Cacheable(req[t])

\* C1 as stated: for every two such calls R1 then R2, the loader is invoked
\* exactly once over both, and R2 returns R1's handle and metadata.
C1_Original ==
    [][\A t \in DOMAIN pc :
          RepeatsLast(t) =>
             /\ lastDone'.loads1 = lastDone.loads0 + 1
             /\ lastDone'.resp.model = lastDone.resp.model
             /\ lastDone'.resp.metadata = lastDone.resp.metadata]_vars

\* C1 amended: when R1 returned a handle and R2 found the path present, R2
\* invokes no loader (so the two invoke it exactly once if R1 was a miss and
\* not at all if R1 was itself a hit) and returns R1's handle and metadata.
C1_IdempotentHit ==
    [][\A t \in DOMAIN pc :
          (RepeatsLast(t) /\ lastDone.resp.model # None /\ pc[t] # "validate") =>
             /\ pc[t] = "hit_metadata"
             /\ lastDone'.loads1 = lastDone.loads1
             /\ lastDone'.loads1 =
                   IF lastDone.at = "hit_metadata"
                   THEN lastDone.loads0 ELSE lastDone.loads0 + 1
             /\ lastDone'.resp.model = lastDone.resp.model
             /\ lastDone'.resp.metadata = lastDone.resp.metadata]_vars

\* C1 witness: a hit has just handed out the object of the only load the
\* engine ever made, together with the metadata stored for it.
C1_Witness ==
    /\ lastDone.valid
    /\ lastDone.at = "hit_metadata"
    /\ Cacheable(lastDone.req)
    /\ loads = 1
    /\ lastDone.loads0 = 1
    /\ lastDone.resp.model = 1
    /\ SaysSuccess(lastDone.resp.metadata)
    /\ lastDone.resp.metadata.load_timestamp = 1

(***************************************************************************)
(* C2.  Forced bypass.                                                     *)
(***************************************************************************)
\* The entry at caller t's key is, after this step, the triple's handle and
\* metadata.
EntryIsResponse(t) ==
    /\ frame[t].cache_key \in DOMAIN model_cache'
    /\ frame[t].cache_key \in DOMAIN model_metadata'
    /\ model_cache'[frame[t].cache_key] = lastDone'.resp.model
    /\ model_metadata'[frame[t].cache_key] = lastDone'.resp.metadata

\* The two dictionaries are, after this step, what they were when caller t
\* made its call.
EngineAsAtCall(t) ==
    /\ model_cache' = frame[t].cache0
    /\ model_metadata' = frame[t].meta0

\* C2 as stated: every call with force_reload = true invokes the loader and
\* overwrites the cache entry of its key.
C2_Original ==
    [][\A t \in DOMAIN pc :
          (Returns(t) /\ req[t].force_reload) =>
             /\ lastDone'.loads1 > frame[t].loads0
             /\ EntryIsResponse(t)]_vars

\* C2 amended: a force_reload call whose path exists (and whose format is
\* auto or a known one) invokes the loader once whatever the cache holds; it
\* overwrites the entry of its key with the new handle and metadata when the
\* load succeeds and cache_enabled is true, and otherwise leaves the cache
\* as it was.
C2_ForcedBypass ==
    [][\A t \in DOMAIN pc :
          (Returns(t) /\ req[t].force_reload /\ pc[t] # "validate") =>
             /\ lastDone'.loads1 = frame[t].loads0 + 1
             /\ IF lastDone'.resp.model # None /\ req[t].cache_enabled
                THEN /\ EntryIsResponse(t)
                     /\ lastDone'.resp.model = lastDone'.loads1
                ELSE EngineAsAtCall(t)]_vars

\* C2 witness: a forced call found its key cached with the object of load 1
\* and has replaced it by the object of load 2.
C2_Witness ==
    /\ lastDone.valid
    /\ lastDone.req.force_reload
    /\ lastDone.keyCached0
    /\ lastDone.at = "cache_metadata"
    /\ lastDone.loads0 = 1
    /\ lastDone.resp.model = 2
    /\ model_cache[lastDone.key] = 2
    /\ model_metadata[lastDone.key].load_timestamp = 2

(***************************************************************************)
(* C3.  Only successful loads are cached.                                  *)
(***************************************************************************)
\* The keys whose entry in dictionary `now` is new or differs from `before`.
Written(before, now) ==
    {k \in DOMAIN now : k \notin DOMAIN before \/ now[k] # before[k]}

\* C3: whenever a call returns, every entry added or replaced since the call
\* was made sits at the call's own key, holds the non-None handle and the
\* success metadata the call returns, and no entry has been removed; so a
\* call that returns a failure has added and replaced nothing, and every key
\* in the table was put there by a call that returned success.
C3_OnlySuccessCached ==
    [][\A t \in DOMAIN pc :
          Returns(t) =>
             LET out == lastDone'.resp
                 succeeded == out.model # None /\ SaysSuccess(out.metadata)
             IN  /\ DOMAIN frame[t].cache0 \subseteq DOMAIN model_cache'
                 /\ DOMAIN frame[t].meta0 \subseteq DOMAIN model_metadata'
                 /\ \A k \in Written(frame[t].cache0, model_cache') :
                       /\ succeeded
                       /\ k = frame[t].cache_key
                       /\ model_cache'[k] = out.model
                 /\ \A k \in Written(frame[t].meta0, model_metadata') :
                       /\ succeeded
                       /\ k = frame[t].cache_key
                       /\ model_metadata'[k] = out.metadata
                 /\ \A k \in DOMAIN model_cache' : model_cache'[k] # None]_vars

\* C3 witness: a load has just failed on an engine that had cached its key,
\* and the entry still holds the object of the earlier load.
C3_Witness ==
    /\ LoadFailed(lastDone)
    /\ lastDone.keyCached0
    /\ lastDone.loads1 = 2
    /\ model_cache[lastDone.key] = 1
    /\ model_metadata[lastDone.key].load_timestamp = 1

(***************************************************************************)
(* C4.  Every response carries a success flag.                             *)
(***************************************************************************)
\* C4: every returned triple is (handle or None, info text, metadata) and
\* its metadata holds a boolean success flag, with an error text whenever
\* the flag is false or the handle is None.
C4_SuccessFlagAlways ==
    lastDone.valid =>
       /\ DOMAIN lastDone.resp = {"model", "info", "metadata"}
       /\ lastDone.resp.model \in 0..MaxLoads
       /\ "success" \in DOMAIN lastDone.resp.metadata
       /\ lastDone.resp.metadata.success \in BOOLEAN
       /\ (lastDone.resp.model = None =>
             /\ lastDone.resp.metadata.success = FALSE
             /\ "error" \in DOMAIN lastDone.resp.metadata)

(***************************************************************************)
(* C5.  Missing file.                                                      *)
(***************************************************************************)
\* C5: when the path of a call is empty or does not exist as line 108 tests
\* it, the call returns exactly (None, "Model file not found: {path}",
\* {error: file_not_found}) from that line, and since the call was made no
\* loader has been invoked and the cache table has not changed.
C5_MissingFile ==
    [][\A t \in DOMAIN pc :
          (/\ pc[t] = "validate"
           /\ pc'[t] # pc[t]
           /\ req[t].model_path = EmptyPath \/ req[t].model_path \notin files) =>
             /\ pc'[t] = "idle"
             /\ lastDone'.resp =
                   [model |-> None,
                    info |-> <<"Model file not found: ">> \o req[t].model_path,
                    metadata |-> [error |-> "file_not_found"]]
             /\ loads' = frame[t].loads0
             /\ EngineAsAtCall(t)
             /\ UNCHANGED engine]_vars

\* C5 witness: a call on the non-empty path has just returned the
\* file-not-found triple while its key was cached.
C5_Witness ==
    /\ lastDone.valid
    /\ lastDone.at = "validate"
    /\ lastDone.req.model_path = ModelPath
    /\ Cacheable(lastDone.req)
    /\ CacheKeyOf(lastDone.req) \in DOMAIN model_cache
    /\ lastDone.resp.model = None
    /\ lastDone.resp.metadata = [error |-> "file_not_found"]

(***************************************************************************)
(* C6.  Coalescing of concurrent loads of one key.                         *)
(***************************************************************************)
\* C6: no two cacheable calls with the same cache key hold an object of
\* their own from the loader at the same time: at most one load per key is
\* in flight, and a call arriving meanwhile waits for its result.
C6_Coalesced ==
    \A t1, t2 \in DOMAIN pc :
       (/\ t1 # t2
        /\ HoldsLoad(t1)
        /\ HoldsLoad(t2)
        /\ Cacheable(req[t1])
        /\ Cacheable(req[t2])) =>
          frame[t1].cache_key # frame[t2].cache_key

(***************************************************************************)
(* C7.  A hit sees the handle with the metadata of the same load.          *)
(***************************************************************************)
\* C7: every call served from the cache returns a handle together with
\* non-empty success metadata built by the load that produced that handle.
C7_HitSeesWholeEntry ==
    (lastDone.valid /\ lastDone.at = "hit_metadata") =>
       /\ lastDone.resp.metadata # EmptyDict
       /\ SaysSuccess(lastDone.resp.metadata)
       /\ lastDone.resp.metadata.load_timestamp = lastDone.resp.model

(***************************************************************************)
(* C8.  Retry after failure.                                               *)
(***************************************************************************)
\* Caller t returns from a cacheable call made right after a call with the
\* same four key fields whose load failed.
RetriesFailed(t) ==
    /\ Returns(t)
    /\ LoadFailed(lastDone)
    /\ SameKeyFields(lastDone.req, req[t])
    /\ Cacheable(req[t])

\* What the retry does once it loads: it fails again only while the file is
\* still missing or unreadable, and a success is cached under its key.
RetryOutcome(t) ==
    IF lastDone'.resp.model = None
    THEN ~Readable(req[t].model_path, files, corrupt)
    ELSE /\ lastDone'.resp.model = lastDone'.loads1
         /\ SaysSuccess(lastDone'.resp.metadata)
         /\ EntryIsResponse(t)

\* C8 as stated: after any call whose load failed, the next cacheable call
\* with the same key invokes the loader again, and succeeds and is cached
\* once the cause is gone.
C8_Original ==
    [][\A t \in DOMAIN pc :
          RetriesFailed(t) =>
             /\ lastDone'.loads1 > frame[t].loads0
             /\ RetryOutcome(t)]_vars

\* C8 amended: after a call whose load failed while no entry for its key was
\* cached, the next cacheable call with the same key, if its path exists,
\* invokes the loader again (never a cache hit), and succeeds and is cached
\* once the cause is gone.
C8_RetryAfterFailure ==
    [][\A t \in DOMAIN pc :
          (RetriesFailed(t) /\ ~lastDone.keyCached0 /\ pc[t] # "validate") =>
             /\ pc[t] # "hit_metadata"
             /\ lastDone'.loads1 = frame[t].loads0 + 1
             /\ RetryOutcome(t)]_vars

\* C8 witness: a load failed with nothing cached for its key, and the next
\* call, with the same key fields, has loaded again and stored its object.
C8_Witness ==
    /\ LoadFailed(lastDone)
    /\ ~lastDone.keyCached0
    /\ Cacheable(lastDone.req)
    /\ pc[1] = "cache_metadata"
    /\ Cacheable(req[1])
    /\ SameKeyFields(lastDone.req, req[1])
    /\ frame[1].loads0 = lastDone.loads1
    /\ frame[1].model = lastDone.loads1 + 1
    /\ model_cache[frame[1].cache_key] = frame[1].model

(***************************************************************************)
(* C9.  The cache key depends on four fields only.                         *)
(***************************************************************************)
\* C9: whenever a call has derived its key and the call that returned last
\* had derived one, equal path, device preference, precision preference and
\* config give equal keys, whatever the format hint, cache_enabled, optimize
\* and force_reload of the two calls are.
C9_KeyOfFourFields ==
    \A t \in DOMAIN pc :
       (/\ pc[t] \notin {"idle", "validate"}
        /\ lastDone.valid
        /\ lastDone.key # NoKey
        /\ SameKeyFields(lastDone.req, req[t])) =>
          frame[t].cache_key = lastDone.key

\* C9 witness: two calls that differ in all four other fields hold the same
\* key.
C9_Witness ==
    /\ pc[1] = "lookup"
    /\ lastDone.valid
    /\ frame[1].cache_key = lastDone.key
    /\ SameKeyFields(lastDone.req, req[1])
    /\ lastDone.req.model_type # req[1].model_type
    /\ lastDone.req.cache_enabled # req[1].cache_enabled
    /\ lastDone.req.optimize_memory # req[1].optimize_memory
    /\ lastDone.req.force_reload # req[1].force_reload

(***************************************************************************)
(* C10.  Canonical config in the cache key.                                *)
(***************************************************************************)
\* C10: two calls equal in path, device and precision whose config texts
\* parse to the same mapping derive the same cache key.
C10_CanonicalConfig ==
    \A t \in DOMAIN pc :
       (/\ pc[t] \notin {"idle", "validate"}
        /\ lastDone.valid
        /\ lastDone.key # NoKey
        /\ lastDone.req.model_path = req[t].model_path
        /\ lastDone.req.device = req[t].device
        /\ lastDone.req.precision = req[t].precision
        /\ JsonWellFormed(lastDone.req.model_config)
        /\ JsonWellFormed(req[t].model_config)
        /\ ParseConfig(lastDone.req.model_config) = ParseConfig(req[t].model_config)) =>
          frame[t].cache_key = lastDone.key


(***************************************************************************)
(* C11.  The key is built from the requested device, not the resolved one. *)
(***************************************************************************)
\* Calls a and b agree on path, precision preference and config; one asks
\* for device auto and the other names the device auto resolves to.
AutoAndResolved(a, b) ==
    /\ a.model_path = b.model_path
    /\ a.precision = b.precision
    /\ a.model_config = b.model_config
    /\ \/ a.device = "auto" /\ b.device = _determine_device("auto", cuda, mps)
       \/ b.device = "auto" /\ a.device = _determine_device("auto", cuda, mps)

\* C11: when a call returns right after a call that differs from it only in
\* naming the device auto resolves to instead of auto (or the reverse), the
\* two have derived different keys; the later one is not served the earlier
\* one's entry: unless its own key was cached already, it invokes the
\* loader; and when both have stored their result the table holds the two
\* keys with the two different handles.
C11_RequestedDeviceInKey ==
    [][\A t \in DOMAIN pc :
          (/\ Returns(t)
           /\ pc[t] # "validate"
           /\ lastDone.valid
           /\ lastDone.key # NoKey
           /\ AutoAndResolved(lastDone.req, req[t])) =>
             /\ frame[t].cache_key # lastDone.key
             /\ (frame[t].cache_key \notin DOMAIN frame[t].cache0) =>
                   /\ pc[t] # "hit_metadata"
                   /\ lastDone'.loads1 = frame[t].loads0 + 1
             /\ (lastDone.at = "cache_metadata" /\ pc[t] = "cache_metadata") =>
                   /\ {lastDone.key, frame[t].cache_key} \subseteq DOMAIN model_cache'
                   /\ model_cache'[lastDone.key] = lastDone.resp.model
                   /\ model_cache'[frame[t].cache_key] = lastDone'.resp.model
                   /\ lastDone'.resp.model # lastDone.resp.model]_vars

\* C11 witness: a call with device auto and then the same call with device
\* cpu, which auto resolves to here, have each loaded, and the table holds
\* the object of load 1 under one key and the object of load 2 under another.
C11_Witness ==
    /\ lastDone.valid
    /\ lastDone.at = "cache_metadata"
    /\ lastDone.req.device = "cpu"
    /\ _determine_device("auto", cuda, mps) = "cpu"
    /\ loads = 2
    /\ lastDone.key \in DOMAIN model_cache
    /\ CacheKeyOf([lastDone.req EXCEPT !.device = "auto"]) \in DOMAIN model_cache
    /\ model_cache[CacheKeyOf([lastDone.req EXCEPT !.device = "auto"])] = 1
    /\ model_cache[lastDone.key] = 2
    /\ Cardinality(DOMAIN model_cache) = 2

(***************************************************************************)
(* C12.  A failed load returns the failure triple and leaves the cache.    *)
(***************************************************************************)
\* Caller t leaves load_model through the handler of lines 155-157.
Fails(t) == Returns(t) /\ pc[t] \in {"load", "loaded"}

\* C12: a call whose path passed line 108 and whose loader cannot read the
\* file ends in the handler; and every call that ends in the handler
\* returns (None, "Failed to load model: " + message, {error: message,
\* success: False}) for a non-empty message, with both dictionaries what
\* they were when the call was made.
C12_FailureTriple ==
    [][\A t \in DOMAIN pc :
          /\ (/\ pc[t] = "load"
              /\ pc'[t] # pc[t]
              /\ ~Readable(req[t].model_path, files, corrupt)) => Fails(t)
          /\ Fails(t) =>
                /\ DOMAIN lastDone'.resp.metadata = {"error", "success"}
                /\ lastDone'.resp.metadata.error # <<>>
                /\ lastDone'.resp =
                      [model |-> None,
                       info |-> <<"Failed to load model: ">>
                                   \o lastDone'.resp.metadata.error,
                       metadata |-> [error |-> lastDone'.resp.metadata.error,
                                     success |-> FALSE]]
                /\ EngineAsAtCall(t)
                /\ UNCHANGED engine]_vars

\* C12 witness: with two keys cached, a third load has just failed on the
\* damaged file, and the table still holds the two earlier objects.
C12_Witness ==
    /\ lastDone.valid
    /\ lastDone.at = "load"
    /\ lastDone.req.model_path \in files
    /\ lastDone.req.model_path \in corrupt
    /\ lastDone.loads1 = 3
    /\ lastDone.resp.model = None
    /\ lastDone.resp.info =
          <<"Failed to load model: ", "torch.load: ", "cannot read">> \o ModelPath
    /\ Cardinality(DOMAIN model_cache) = 2
    /\ {model_cache[k] : k \in DOMAIN model_cache} = {1, 2}
    /\ DOMAIN model_metadata = DOMAIN model_cache

(***************************************************************************)
(* C13.  No eviction.                                                      *)
(***************************************************************************)
\* C13: in every step, each key of either dictionary stays a key of it, and
\* an entry that is new or replaced sits at the key of a call that is
\* storing its result; so a call from entry to return leaves the table as it
\* was, adds its own key, or replaces the entry at its own key.
C13_NoEviction ==
    [][/\ DOMAIN model_cache \subseteq DOMAIN model_cache'
       /\ DOMAIN model_metadata \subseteq DOMAIN model_metadata'
       /\ \A k \in Written(model_cache, model_cache')
                      \cup Written(model_metadata, model_metadata') :
             \E t \in DOMAIN pc :
                /\ pc[t] \in {"cache", "cache_metadata"}
                /\ k = frame[t].cache_key
       /\ \A t \in DOMAIN pc :
             Returns(t) =>
                /\ DOMAIN frame[t].cache0 \subseteq DOMAIN model_cache'
                /\ Written(frame[t].cache0, model_cache')
                      \subseteq {frame[t].cache_key}
                /\ Written(frame[t].meta0, model_metadata')
                      \subseteq {frame[t].cache_key}]_vars

\* C13 witness: the table holds two keys; the one of the call that returned
\* last was cached before that call and now holds the object of load 3, and
\* the other still holds an earlier object.
C13_Witness ==
    /\ lastDone.valid
    /\ lastDone.at = "cache_metadata"
    /\ lastDone.keyCached0
    /\ Cardinality(DOMAIN model_cache) = 2
    /\ model_cache[lastDone.key] = 3
    /\ \E k \in DOMAIN model_cache : k # lastDone.key /\ model_cache[k] \in {1, 2}

(***************************************************************************)
(* C14.  cache_enabled = false neither reads nor writes the cache.         *)
(***************************************************************************)
\* C14: a call with cache_enabled = false whose path passed line 108 never
\* takes the cache branch; when it returns it has invoked the loader once,
\* whether or not its key was cached, and both dictionaries are what they
\* were when it was made, whether the load succeeded or failed.  And a call
\* returns with an entry added or replaced only if cache_enabled is true and
\* it returns a handle, and then only at its own key.
C14_CacheDisabled ==
    [][\A t \in DOMAIN pc :
          /\ (pc[t] = "lookup" /\ ~req[t].cache_enabled) =>
                pc'[t] \in {"lookup", "load"}
          /\ (Returns(t) /\ ~req[t].cache_enabled /\ pc[t] # "validate") =>
                /\ pc[t] # "hit_metadata"
                /\ lastDone'.loads1 = frame[t].loads0 + 1
                /\ EngineAsAtCall(t)
          /\ (/\ Returns(t)
              /\ Written(frame[t].cache0, model_cache')
                    \cup Written(frame[t].meta0, model_metadata') # {}) =>
                /\ req[t].cache_enabled
                /\ lastDone'.resp.model # None
                /\ Written(frame[t].cache0, model_cache') = {frame[t].cache_key}
                /\ Written(frame[t].meta0, model_metadata') = {frame[t].cache_key}]_vars

\* C14 witness: a call with cache_enabled = false and force_reload = false
\* found its key cached with the object of load 1, loaded all the same, and
\* returned the object of load 2 while the table still holds load 1.
C14_Witness ==
    /\ lastDone.valid
    /\ ~lastDone.req.cache_enabled
    /\ ~lastDone.req.force_reload
    /\ lastDone.keyCached0
    /\ lastDone.at = "cache"
    /\ lastDone.resp.model = 2
    /\ model_cache[lastDone.key] = 1
    /\ model_metadata[lastDone.key].load_timestamp = 1

(***************************************************************************)
(* C15.  Precision resolution.                                             *)
(***************************************************************************)
\* The dtype an explicit precision preference names.
DtypeOf(precision) ==
    CASE precision = "float16" -> "torch.float16"
      [] precision = "bfloat16" -> "torch.bfloat16"
      [] precision = "float32" -> "torch.float32"

IsAccelerator(device) == device \in {"cuda", "mps"}

\* C15: in every call that has resolved its device and precision, an
\* explicit precision preference is the dtype it names, and auto is float16
\* exactly when the device resolved for this call is an accelerator (cuda or
\* mps) and float32 otherwise.
C15_PrecisionByResolvedDevice ==
    \A t \in DOMAIN pc :
       HoldsLoad(t) =>
          frame[t].target_dtype =
             IF req[t].precision # "auto" THEN DtypeOf(req[t].precision)
             ELSE IF IsAccelerator(frame[t].target_device) THEN "torch.float16"
             ELSE "torch.float32"

(***************************************************************************)
(* C16.  Device resolution.                                                *)
(***************************************************************************)
\* C16: when a call resolves its device and dispatches, an explicit
\* preference is the target device whatever the hardware is (so the load
\* goes ahead on it when a tensor can be placed there, and fails in the
\* loader, not in the resolver, when not); auto becomes cuda when cuda is
\* available, else mps when mps is available, else cpu, and the load goes
\* ahead on it.
C16_DeviceResolution ==
    [][\A t \in DOMAIN pc :
          (pc[t] = "load" /\ pc'[t] # pc[t]) =>
             IF req[t].device # "auto"
             THEN IF DeviceUsable(req[t].device, cuda, mps)
                  THEN /\ pc'[t] = "loaded"
                       /\ frame'[t].target_device = req[t].device
                  ELSE /\ Fails(t)
                       /\ lastDone'.loads1 = frame[t].loads0 + 1
             ELSE /\ pc'[t] = "loaded"
                  /\ frame'[t].target_device =
                        IF cuda THEN "cuda" ELSE IF mps THEN "mps" ELSE "cpu"]_vars

\* C16 witness: with mps the only accelerator, a call naming cuda has been
\* handed to the loader with cuda and failed there, and the next call, with
\* auto, holds an object loaded on mps.
C16_Witness ==
    /\ ~cuda
    /\ mps
    /\ LoadFailed(lastDone)
    /\ lastDone.req.device = "cuda"
    /\ lastDone.loads1 = lastDone.loads0 + 1
    /\ pc[1] = "loaded"
    /\ req[1].device = "auto"
    /\ frame[1].target_device = "mps"

(***************************************************************************)
(* C17.  Format detection.                                                 *)
(***************************************************************************)
\* The rule table: the first row that applies gives the format.
RuleTable(path) ==
    CASE Suffix(path) = ".safetensors" -> "safetensors"
      [] Suffix(path) \in {".ckpt", ".pth", ".pt"} -> "checkpoint"
      [] Suffix(path) = ".onnx" -> "onnx"
      [] OTHER -> IF path \in DirPaths /\ (path \o IndexMarker) \in files
                  THEN "diffusers"
                  ELSE "checkpoint"

\* C17: when a call dispatches, the format it dispatches on is the row of
\* the rule table for its path if the hint is auto and the hint itself
\* otherwise; the call then either holds an object of that format, or has
\* failed with the error of that format's loader: detection itself never
\* fails.
C17_FormatDetection ==
    [][\A t \in DOMAIN pc :
          (pc[t] = "load" /\ pc'[t] # pc[t]) =>
             LET format == IF req[t].model_type = "auto"
                           THEN RuleTable(req[t].model_path)
                           ELSE req[t].model_type
                 out == _load_model_by_type(req[t].model_path, format,
                                            _determine_device(req[t].device, cuda, mps),
                                            files, corrupt, cuda, mps, packages)
             IN  IF pc'[t] = "loaded"
                 THEN /\ frame'[t].model_type = format
                      /\ frame'[t].model_info = out.info
                 ELSE /\ Fails(t)
                      /\ ~out.ok
                      /\ lastDone'.resp = Failure(out.msg)]_vars

\* C17 witness: the file of unknown extension has been loaded as a
\* checkpoint, and the directory that holds its marker has just been loaded
\* as a diffusers pipeline, both under the hint auto.
C17_Witness ==
    /\ lastDone.valid
    /\ lastDone.req.model_path = <<"m", ".bin">>
    /\ lastDone.req.model_type = "auto"
    /\ lastDone.resp.model # None
    /\ lastDone.resp.metadata.model_type = "checkpoint"
    /\ pc[1] = "loaded"
    /\ req[1].model_path = <<"pipe">>
    /\ req[1].model_type = "auto"
    /\ frame[1].model_type = "diffusers"

(***************************************************************************)
(* C18.  Path validation precedes the cache lookup.                        *)
(***************************************************************************)
\* C18: a call reaches the cache test only from the path test, with its
\* path present, and the cache branch only from the cache test; so when a
\* call whose key is cached finds its path gone at the path test, it returns
\* the file-not-found triple, not the cached handle, and the entry stays in
\* the table with the handle and metadata it had.
C18_ValidationFirst ==
    [][\A t \in DOMAIN pc :
          /\ (pc'[t] = "lookup" /\ pc[t] # "lookup") =>
                /\ pc[t] = "validate"
                /\ req[t].model_path \in files
          /\ (pc'[t] = "hit_model" /\ pc[t] # "hit_model") => pc[t] = "lookup"
          /\ (/\ pc[t] = "validate"
              /\ pc'[t] # pc[t]
              /\ CacheKeyOf(req[t]) \in DOMAIN model_cache
              /\ req[t].model_path \notin files) =>
                /\ Returns(t)
                /\ lastDone'.resp = FileNotFound(req[t].model_path)
                /\ lastDone'.resp.model # model_cache[CacheKeyOf(req[t])]
                /\ CacheKeyOf(req[t]) \in DOMAIN model_cache'
                /\ model_cache'[CacheKeyOf(req[t])] = model_cache[CacheKeyOf(req[t])]
                /\ model_metadata'[CacheKeyOf(req[t])] =
                      model_metadata[CacheKeyOf(req[t])]]_vars

\* C18 witness: the key was cached by load 1 with the call that returned
\* last but one, the file was then removed, and the next call with the same
\* key has returned file-not-found while the entry still holds load 1.
C18_Witness ==
    /\ lastDone.valid
    /\ lastDone.at = "validate"
    /\ lastDone.req.model_path = ModelPath
    /\ ModelPath \notin files
    /\ Cacheable(lastDone.req)
    /\ lastDone.loads0 = 1
    /\ loads = 1
    /\ lastDone.resp = FileNotFound(ModelPath)
    /\ CacheKeyOf(lastDone.req) \in DOMAIN model_cache
    /\ model_cache[CacheKeyOf(lastDone.req)] = 1
    /\ model_metadata[CacheKeyOf(lastDone.req)].load_timestamp = 1

(***************************************************************************)
(* C19.  Dispatch on an unknown format tag.                                *)
(***************************************************************************)
KnownFormats == {"safetensors", "checkpoint", "diffusers", "onnx"}

\* C19: when a call dispatches with a hint that is neither auto nor one of
\* the four known tags, it ends in the handler with (None, "Failed to load
\* model: Unsupported model type: {tag}", {error: ..., success: False}); no
\* loader has been invoked since the call was made, and both dictionaries
\* are what they were when it was made.
C19_UnsupportedFormat ==
    [][\A t \in DOMAIN pc :
          (/\ pc[t] = "load"
           /\ pc'[t] # pc[t]
           /\ req[t].model_type \notin KnownFormats \cup {"auto"}) =>
             /\ Fails(t)
             /\ loads' = frame[t].loads0
             /\ lastDone'.loads1 = frame[t].loads0
             /\ lastDone'.resp =
                   [model |-> None,
                    info |-> <<"Failed to load model: ",
                               "Unsupported model type: ", req[t].model_type>>,
                    metadata |-> [error |-> <<"Unsupported model type: ",
                                              req[t].model_type>>,
                                  success |-> FALSE]]
             /\ EngineAsAtCall(t)
             /\ UNCHANGED engine]_vars

\* C19 witness: a forced call with the unknown tag has just failed on an
\* engine that had cached its key with the object of load 1; the loader
\* count is still 1 and the entry still holds that object.
C19_Witness ==
    /\ LoadFailed(lastDone)
    /\ lastDone.req.model_type = UnknownFormat
    /\ lastDone.req.force_reload
    /\ lastDone.keyCached0
    /\ lastDone.loads0 = 1
    /\ loads = 1
    /\ lastDone.resp.metadata.success = FALSE
    /\ model_cache[lastDone.key] = 1
    /\ model_metadata[lastDone.key].load_timestamp = 1

(***************************************************************************)
(* C20.  A loader whose runtime library is absent.                         *)
(***************************************************************************)
\* The library a format's loader imports.
PackageOf(format) ==
    CASE format = "safetensors" -> "safetensors"
      [] format = "diffusers" -> "diffusers"
      [] format = "onnx" -> "onnxruntime"

\* The error a loader raises when its import fails.
NotInstalled(format) ==
    CASE format = "safetensors" -> <<"safetensors package not installed">>
      [] format = "diffusers" -> <<"diffusers package not installed">>
      [] format = "onnx" -> <<"onnxruntime package not installed">>

\* C20: when a call dispatches to the diffusers, safetensors or onnx loader
\* and that loader's library is not installed, the call ends in the handler
\* with a None handle, the loader's not-installed message and
\* success = False, and both dictionaries are what they were when the call
\* was made.
C20_DependencyMissing ==
    [][\A t \in DOMAIN pc :
          (/\ pc[t] = "load"
           /\ pc'[t] # pc[t]
           /\ req[t].model_type \in {"safetensors", "diffusers", "onnx"}
           /\ PackageOf(req[t].model_type) \notin packages) =>
             /\ Fails(t)
             /\ lastDone'.resp =
                   [model |-> None,
                    info |-> <<"Failed to load model: ">>
                                \o NotInstalled(req[t].model_type),
                    metadata |-> [error |-> NotInstalled(req[t].model_type),
                                  success |-> FALSE]]
             /\ EngineAsAtCall(t)
             /\ UNCHANGED engine]_vars

\* C20 witness: with no library installed, a forced call for the diffusers
\* loader has just failed with its not-installed message on an engine that
\* had cached the key with the object of load 1, and the entry is intact.
C20_Witness ==
    /\ packages = {}
    /\ LoadFailed(lastDone)
    /\ lastDone.req.model_type = "diffusers"
    /\ lastDone.req.force_reload
    /\ lastDone.keyCached0
    /\ lastDone.resp.metadata = [error |-> <<"diffusers package not installed">>,
                                 success |-> FALSE]
    /\ model_cache[lastDone.key] = 1
    /\ model_metadata[lastDone.key].load_timestamp = 1

(***************************************************************************)
(* C21.  A malformed config is an empty config.                            *)
(***************************************************************************)
\* C21: when a call whose config text json.loads rejects parses it and
\* dispatches, the step is the one a call with the config "{}" takes in the
\* same state: it holds an object, with the empty dict as its config, exactly
\* when the loader can read the file, and otherwise ends in the handler with
\* the loader's error; never with an error of the parse.
C21_ConfigResilience ==
    [][\A t \in DOMAIN pc :
          (/\ pc[t] = "load"
           /\ pc'[t] # pc[t]
           /\ req[t].model_config # <<>>
           /\ ~JsonWellFormed(req[t].model_config)) =>
             LET out == _load_model_by_type(
                           req[t].model_path,
                           IF req[t].model_type = "auto"
                           THEN _detect_model_type(req[t].model_path, files)
                           ELSE req[t].model_type,
                           _determine_device(req[t].device, cuda, mps),
                           files, corrupt, cuda, mps, packages)
             IN  /\ ParseConfig(CfgNone) = EmptyDict
                 /\ IF Readable(req[t].model_path, files, corrupt)
                    THEN /\ pc'[t] = "loaded"
                         /\ frame'[t].config = ParseConfig(CfgNone)
                         /\ frame'[t].model = loads'
                         /\ frame'[t].model_info = out.info
                    ELSE /\ Fails(t)
                         /\ lastDone'.resp = Failure(out.msg)]_vars

\* C21 witness: a call with the malformed config failed on the damaged file
\* with the loader's error, and after the repair the same call holds an
\* object, with the empty dict as its config.
C21_Witness ==
    /\ LoadFailed(lastDone)
    /\ lastDone.req.model_config = CfgBad
    /\ lastDone.resp.metadata.error[1] = "torch.load: "
    /\ pc[1] = "loaded"
    /\ req[1].model_config = CfgBad
    /\ ~JsonWellFormed(CfgBad)
    /\ frame[1].config = EmptyDict
    /\ frame[1].model = loads

(***************************************************************************)
(* C22.  The optimisation pass is optional and never fatal.                *)
(***************************************************************************)
\* C22: the pass runs in a call exactly when optimize_memory is set and the
\* loader returned an object; whether it ran clean, raised inside or was
\* skipped, the call goes on with the same object, and when it returns it
\* returns that object with the metadata built for it, success = True, and
\* the entry stored under its key if cache_enabled is true (the table as it
\* was if not).
C22_OptimizationNonFatal ==
    [][\A t \in DOMAIN pc :
          /\ (pc[t] = "loaded" /\ pc'[t] # pc[t] /\ req[t].model_path \in files) =>
                /\ pc'[t] = "cache"
                /\ frame'[t].model = frame[t].model
                /\ (frame'[t].optimized # "skipped") <=>
                      (req[t].optimize_memory /\ frame[t].model # None)
          /\ (Returns(t) /\ pc[t] \in {"cache", "cache_metadata"}) =>
                /\ lastDone'.resp.model = lastDone'.loads1
                /\ lastDone'.resp.model # None
                /\ lastDone'.resp.info = frame[t].model_info
                /\ lastDone'.resp.metadata =
                      _generate_metadata(req[t].model_path, frame[t].model_type,
                                         frame[t].target_device,
                                         frame[t].target_dtype,
                                         lastDone'.loads1)
                /\ SaysSuccess(lastDone'.resp.metadata)
                /\ IF req[t].cache_enabled
                   THEN EntryIsResponse(t)
                   ELSE EngineAsAtCall(t)]_vars

\* C22 witness: a call whose optimisation pass raised inside has stored the
\* object of its load under its key and holds success metadata for it.
C22_Witness ==
    /\ pc[1] = "cache_metadata"
    /\ req[1].optimize_memory
    /\ frame[1].optimized = "warned"
    /\ frame[1].model = loads
    /\ frame[1].model # None
    /\ model_cache[frame[1].cache_key] = frame[1].model
    /\ SaysSuccess(frame[1].metadata)
    /\ frame[1].metadata.load_timestamp = frame[1].model

(***************************************************************************)
(* C23.  Concurrent calls on different keys do not interfere.              *)
(***************************************************************************)
\* C23: with two callers that never share a key, under every interleaving:
\* no step removes a key or changes the entry of a key other than that of
\* the caller taking it; a call that stores its result returns with its own
\* handle and metadata under its own key; a call served from the cache
\* returns the handle and metadata stored under its own key, built by one
\* load; and the handle and metadata a call returns are never those the
\* other caller has loaded or those stored under the other caller's key.
C23_DisjointKeys ==
    [][\A t \in DOMAIN pc :
          /\ DOMAIN model_cache \subseteq DOMAIN model_cache'
          /\ DOMAIN model_metadata \subseteq DOMAIN model_metadata'
          /\ (pc'[t] # pc[t] /\ pc[t] # "idle") =>
                Written(model_cache, model_cache')
                   \cup Written(model_metadata, model_metadata')
                      \subseteq {CacheKeyOf(req[t])}
          /\ (Returns(t) /\ lastDone'.resp.model # None) =>
                /\ frame[t].cache_key = CacheKeyOf(req[t])
                /\ EntryIsResponse(t)
                /\ lastDone'.resp.metadata.load_timestamp = lastDone'.resp.model
                /\ \A u \in DOMAIN pc \ {t} :
                      /\ HoldsLoad(u) => frame[u].model # lastDone'.resp.model
                      /\ \A k \in DOMAIN model_cache' :
                            k # frame[t].cache_key =>
                               model_cache'[k] # lastDone'.resp.model
                      /\ \A k \in DOMAIN model_metadata' :
                            k # frame[t].cache_key =>
                               model_metadata'[k] # lastDone'.resp.metadata]_vars

\* C23 witness: both callers have loaded at the same time and have stored
\* their objects; the table holds both keys, each with its caller's object.
C23_Witness ==
    /\ pc[1] = "cache_metadata"
    /\ pc[2] = "cache_metadata"
    /\ frame[1].cache_key # frame[2].cache_key
    /\ frame[1].loads0 = 0
    /\ frame[2].loads0 = 0
    /\ DOMAIN model_cache = {frame[1].cache_key, frame[2].cache_key}
    /\ model_cache[frame[1].cache_key] = frame[1].model
    /\ model_cache[frame[2].cache_key] = frame[2].model
    /\ frame[1].model # frame[2].model

(***************************************************************************)
(* C24.  No aliasing between returned handles and cache entries.           *)
(***************************************************************************)
\* C24: the object a caller has been handed is never the object stored in
\* the table: whenever the call that returned last returned a handle, no
\* entry of model_cache is that same object, and no entry of model_metadata
\* is the dict it returned.  (Objects are compared by identity: a handle is
\* the load that created the object, and a metadata dict is identified by
\* its load_timestamp.)
C24_NoAliasing ==
    (lastDone.valid /\ lastDone.resp.model # None) =>
       /\ \A k \in DOMAIN model_cache : model_cache[k] # lastDone.resp.model
       /\ \A k \in DOMAIN model_metadata :
             model_metadata[k] # lastDone.resp.metadata

(***************************************************************************)
(* C25.  The two tables agree between calls.                               *)
(***************************************************************************)
\* C25: whenever no call is running, with calls made one after another,
\* model_cache and model_metadata have the same keys, and under each key
\* the metadata is the one built by the load whose object is stored there,
\* with success = True and no object None.
C25_TablesAgree ==
    (\A t \in DOMAIN pc : pc[t] = "idle") =>
       /\ DOMAIN model_cache = DOMAIN model_metadata
       /\ \A k \in DOMAIN model_cache :
             /\ model_cache[k] # None
             /\ SaysSuccess(model_metadata[k])
             /\ model_metadata[k].load_timestamp = model_cache[k]

\* C25 witness: between calls the table holds two keys, one of them stored
\* twice: it holds the object of load 3 with the metadata of load 3, and
\* the other an earlier object with its own metadata.
C25_Witness ==
    /\ pc[1] = "idle"
    /\ lastDone.valid
    /\ lastDone.keyCached0
    /\ lastDone.at = "cache_metadata"
    /\ Cardinality(DOMAIN model_metadata) = 2
    /\ model_cache[lastDone.key] = 3
    /\ model_metadata[lastDone.key].load_timestamp = 3
    /\ \E k \in DOMAIN model_metadata :
          /\ k # lastDone.key
          /\ model_metadata[k].load_timestamp = model_cache[k]
          /\ model_cache[k] \in {1, 2}

(***************************************************************************)
(* C26.  A hit ignores the format hint and the optimize flag.              *)
(***************************************************************************)
\* The recorded call left its result cached: it stored it or was itself
\* served from the cache.
LeftCached(c) ==
    /\ c.valid
    /\ c.req.cache_enabled
    /\ c.resp.model # None
    /\ c.at \in {"cache_metadata", "hit_metadata"}

\* C26: when a cacheable call returns right after a call that left its
\* result cached, with the same path, device preference, precision
\* preference and config but another format hint or another optimize flag,
\* it has been served from the cache: it returns the earlier call's handle
\* and metadata, whose model_type is the format resolved back then, and no
\* loader has been invoked.
C26_HitIgnoresHint ==
    [][\A t \in DOMAIN pc :
          (/\ Returns(t)
           /\ pc[t] # "validate"
           /\ LeftCached(lastDone)
           /\ Cacheable(req[t])
           /\ SameKeyFields(lastDone.req, req[t])
           /\ \/ req[t].model_type # lastDone.req.model_type
              \/ req[t].optimize_memory # lastDone.req.optimize_memory) =>
             /\ pc[t] = "hit_metadata"
             /\ lastDone'.resp.model = lastDone.resp.model
             /\ lastDone'.resp.metadata = lastDone.resp.metadata
             /\ lastDone'.resp.info = <<"Model loaded from cache">>
             /\ lastDone'.loads1 = lastDone.loads1
             /\ loads' = lastDone.loads1]_vars

\* C26 witness: a call with hint auto and the optimisation on loaded and
\* cached a checkpoint; the next call, with hint safetensors and the
\* optimisation off, has returned that object with metadata saying
\* checkpoint, and the loader has run once.
C26_Witness ==
    /\ lastDone.valid
    /\ lastDone.at = "hit_metadata"
    /\ lastDone.req.model_type = "safetensors"
    /\ ~lastDone.req.optimize_memory
    /\ Cacheable(lastDone.req)
    /\ lastDone.resp.model = 1
    /\ lastDone.resp.metadata.model_type = "checkpoint"
    /\ lastDone.resp.metadata.load_timestamp = 1
    /\ loads = 1

(***************************************************************************)
(* C27.  A failed forced reload keeps the old entry.                       *)
(***************************************************************************)
\* C27: when a force_reload call whose key was cached ends in the handler,
\* it returns a None handle with success = False and the entry of its key
\* is the one that was there when it was made; and when the next call with
\* the same key fields, cache_enabled and not forced, gets past the path
\* test, it is served from the cache: it returns that old handle, an object
\* loaded before the failed call was made, with the metadata of the same
\* load, and invokes no loader.
C27_FailedReloadKeepsEntry ==
    [][\A t \in DOMAIN pc :
          /\ (/\ Fails(t)
              /\ req[t].force_reload
              /\ frame[t].cache_key \in DOMAIN frame[t].cache0) =>
                /\ lastDone'.resp.model = None
                /\ lastDone'.resp.metadata.success = FALSE
                /\ frame[t].cache_key \in DOMAIN model_cache'
                /\ model_cache'[frame[t].cache_key] =
                      frame[t].cache0[frame[t].cache_key]
                /\ model_metadata'[frame[t].cache_key] =
                      frame[t].meta0[frame[t].cache_key]
          /\ (/\ Returns(t)
              /\ pc[t] # "validate"
              /\ LoadFailed(lastDone)
              /\ lastDone.req.force_reload
              /\ lastDone.keyCached0
              /\ SameKeyFields(lastDone.req, req[t])
              /\ Cacheable(req[t])) =>
                /\ pc[t] = "hit_metadata"
                /\ lastDone'.resp.model = model_cache[frame[t].cache_key]
                /\ lastDone'.resp.model # None
                /\ lastDone'.resp.model <= lastDone.loads0
                /\ lastDone'.resp.metadata = model_metadata[frame[t].cache_key]
                /\ lastDone'.resp.metadata.load_timestamp = lastDone'.resp.model
                /\ lastDone'.loads1 = lastDone.loads1]_vars

\* C27 witness: the key was cached by load 1, a forced reload of it failed
\* as load 2, and the next call, not forced, has read the object of load 1
\* from the cache.
C27_Witness ==
    /\ LoadFailed(lastDone)
    /\ lastDone.req.force_reload
    /\ lastDone.keyCached0
    /\ lastDone.loads0 = 1
    /\ lastDone.loads1 = 2
    /\ pc[1] = "hit_metadata"
    /\ Cacheable(req[1])
    /\ SameKeyFields(lastDone.req, req[1])
    /\ frame[1].cached_model = 1
    /\ model_metadata[frame[1].cache_key].load_timestamp = 1
    /\ loads = 2
=============================================================================
